---- MODULE Spec2Model ----
(***************************************************************************)
(* Model of the delegation core of the host agent                         *)
(* (src/host_agent/routing_agent.py, RoutingAgent.send_message) and of    *)
(* the streaming executor of the travel planner agent                     *)
(* (src/travel_agent/agent_executor.py, TravelPlannerAgentExecutor).      *)
(***************************************************************************)
EXTENDS Integers, Sequences, FiniteSets, TLC

\* Python's None, and a dictionary key that is absent (dict.get gives None).
NoneV == "<None>"

\* Python truthiness of an optional string: None and "" are falsy.
Truthy(v) == v # NoneV /\ v # ""

(***************************************************************************)
(* Bounds                                                                  *)
(***************************************************************************)
\* send_message calls made on one session state
MaxSends == 2

(***************************************************************************)
(* Input universes of the delegation core                                  *)
(***************************************************************************)
\* names the caller (the routing model) may pass as agent_name
AgentNames == {"TravelPlanner", "BudgetAgent", "UnknownAgent"}

\* the directories discovery may have produced (keys of remote_agent_connections)
Directories == {{"TravelPlanner"}, {"TravelPlanner", "BudgetAgent"}}

\* values the session state may carry under "task_id" (NoneV: key absent)
StateTaskIds == {NoneV, "t1"}

\* values the session state may carry under "context_id" (NoneV: key absent)
StateContextIds == {NoneV, "", "ctx0"}

\* state["input_message_metadata"]: absent, or present with/without a message_id
StateMetadata ==
    { [present |-> FALSE, message_id |-> NoneV],
      [present |-> TRUE,  message_id |-> NoneV],
      [present |-> TRUE,  message_id |-> "m0"] }

\* text of an exception raised by client.send_message, as a sequence of words
ExcTexts == { <<"Read", "Timeout">>, <<"request", "timed out">>,
              <<"Connection", "refused">>, <<>> }

\* the texts that belong to exceptions raised because the 120 s transport
\* timeout ran out; a timeout exception may carry an empty text
TimeoutTexts == { <<"Read", "Timeout">>, <<"request", "timed out">>, <<>> }

\* str.lower() on the words that occur in ExcTexts
Lower(w) ==
    CASE w = "Read"       -> "read"
      [] w = "Timeout"    -> "timeout"
      [] w = "Connection" -> "connection"
      [] OTHER            -> w

\* what client.send_message may do: raise, or return a response whose root is
\* a success response or not, and whose result is a Task or not
DispatchResults ==
    { [kind |-> "raise", text |-> t, is_timeout |-> t \in TimeoutTexts,
       success |-> FALSE, is_task |-> FALSE, task |-> NoneV] : t \in ExcTexts }
    \cup
    { [kind |-> "response", text |-> <<>>, is_timeout |-> FALSE,
       success |-> FALSE, is_task |-> FALSE, task |-> NoneV],
      [kind |-> "response", text |-> <<>>, is_timeout |-> FALSE,
       success |-> TRUE, is_task |-> FALSE, task |-> NoneV],
      [kind |-> "response", text |-> <<>>, is_timeout |-> FALSE,
       success |-> TRUE, is_task |-> TRUE, task |-> "task-t9"] }

\* what the telemetry step may do: succeed, fail while reading the trace id,
\* fail in requests.post with a requests.RequestException, or with another error
TelemetryResults == {"ok", "trace_id_raises", "post_request_exception",
                     "post_other_exception"}

VARIABLES
    remote_agent_connections,  \* RoutingAgent.remote_agent_connections (its keys)
    state,                     \* tool_context.state of the session
    uuid_count,                \* number of uuid.uuid4() values drawn so far
    sent,                      \* history: one record per send_message call
    task_owner                 \* history: the active agent when state's task_id was set

routingVars == <<remote_agent_connections, state, uuid_count, sent, task_owner>>

(***************************************************************************)
(* Input universes of the streaming executor                               *)
(***************************************************************************)
\* events one run_async stream may yield before it ends
MaxEvents == 2

\* cancel requests made on the executor
MaxCancels == 1

\* execute calls (coroutines) the server may run
Calls == {1, 2}

\* context.context_id values
SessionIds == {"s1", "s2"}

\* a google.genai types.Part: text, file_data (uri, mime), inline_data (data, mime)
GPart(text, fd, uri, fmime, il, data, imime) ==
    [text |-> text, file_data |-> fd, file_uri |-> uri, file_mime |-> fmime,
     inline_data |-> il, data |-> data, inline_mime |-> imime]

GText(t) == GPart(t, FALSE, NoneV, NoneV, FALSE, NoneV, NoneV)

GFile(u, m) == GPart(NoneV, TRUE, u, m, FALSE, NoneV, NoneV)

GInline(d, m) == GPart(NoneV, FALSE, NoneV, NoneV, TRUE, d, m)

\* a part with neither text, file_data nor inline_data (a function call, say)
GOther == GPart(NoneV, FALSE, NoneV, NoneV, FALSE, NoneV, NoneV)

\* an a2a part: TextPart, FilePart(FileWithUri), FilePart(FileWithBytes), or
\* another variant (DataPart)
APart(kind, text, uri, bytes, mime) ==
    [kind |-> kind, text |-> text, uri |-> uri, bytes |-> bytes, mime |-> mime]

AText(t) == APart("text", t, NoneV, NoneV, NoneV)

AFileUri(u, m) == APart("file_uri", NoneV, u, NoneV, m)

AFileBytes(b, m) == APart("file_bytes", NoneV, NoneV, b, m)

AData == APart("data", NoneV, NoneV, NoneV, NoneV)

\* context.message.parts of the requests
InboundMessages ==
    { <<AText("plan a trip")>>,
      <<AText("see file"), AFileUri("gs://b/itinerary.pdf", "application/pdf")>>,
      <<AFileBytes("0xCAFE", "image/png")>>,
      <<AText("plan a trip"), AData>> }

\* an ADK event: is_final_response(), get_function_calls() non-empty,
\* content present, content.parts
Event(final, calls, has_content, parts) ==
    [final |-> final, calls |-> calls, has_content |-> has_content,
     parts |-> parts]

FinalEvents ==
    { Event(TRUE, FALSE, TRUE, ps) :
        ps \in { <<GText("Day 1: Kyoto")>>,
                 <<GText("Day 1: "), GText("Kyoto")>>,
                 <<GText("Map: "), GFile("gs://b/map.png", "image/png")>>,
                 <<GText(""), GOther>>,
                 <<>> } }
    \cup { Event(TRUE, FALSE, FALSE, <<>>) }

NonFinalEvents ==
    { Event(FALSE, FALSE, TRUE, ps) :
        ps \in { <<GText("Looking"), GText(" up")>>,
                 <<GText(""), GInline("0xBEEF", "image/png")>>,
                 <<>> } }
    \cup { Event(FALSE, FALSE, FALSE, <<>>),
           Event(FALSE, TRUE, TRUE, <<GOther>>) }

Events == FinalEvents \cup NonFinalEvents

NoEvent == Event(FALSE, FALSE, FALSE, <<>>)

\* what one step of "async for event in runner.run_async(...)" may do: yield
\* an event, end the stream, raise an Exception, or raise an exception that is
\* no Exception (asyncio.CancelledError is a BaseException)
RunnerResults ==
    { [kind |-> "event", event |-> e] : e \in Events }
    \cup { [kind |-> k, event |-> NoEvent] :
             k \in {"end", "raise", "raise_base"} }

\* what a call on the task updater may do
SinkResults == {"ok", "raise"}

\* what a call on the session service may do
StoreResults == {"ok", "raise"}

VARIABLES
    pc,            \* where each execute call stands
    sid,           \* context.context_id of each call
    current_task,  \* whether context.current_task is set
    inbound,       \* context.message.parts
    log,           \* what the task updater of each call has accepted, in order
    stream,        \* history: the events each call has taken from the runner
    pending,       \* the updater call each call is about to await
    exc,           \* the exception raised inside the try block of each call
    handler,       \* history: how the updater call of the except block ended
    escaped,       \* the exception that left execute, if any
    entered,       \* history: the call has added its session id
    active,        \* TravelPlannerAgentExecutor._active_sessions
    store,         \* sessions the session service holds
    creates,       \* history: create_session requests per session id
    cancels        \* history: one record per cancel call

execVars == <<pc, sid, current_task, inbound, log, stream, pending, exc,
              handler, escaped, entered, active, store, creates, cancels>>

(***************************************************************************)
(* Input universes of start-up: discovery and agent construction           *)
(***************************************************************************)
\* remote_agent_addresses handed to RoutingAgent.create
MaxAddresses == 2

\* the address list of length n
AddressList(n) == [i \in 1..n |-> "http://agent-" \o ToString(i)]

\* an AgentCard, as far as the roster reads it
Card(name, description) == [name |-> name, description |-> description]

NoCard == Card(NoneV, NoneV)

\* the cards the endpoints may serve; two endpoints may serve the same name
AgentCards ==
    { Card("TravelPlanner", "plans trips"),
      Card("BudgetAgent", "estimates budgets"),
      Card("TravelPlanner", "plans trips, second deployment") }

\* what card_resolver.get_agent_card() may do for one address
FetchResults ==
    { [kind |-> "card", card |-> k] : k \in AgentCards }
    \cup { [kind |-> "ConnectError", card |-> NoCard],
           [kind |-> "Exception", card |-> NoCard] }

\* what os.getenv gives for one variable: unset, set to "", or set
EnvValues == {NoneV, "", "set"}

Environments ==
    [AZURE_OPENAI_ENDPOINT : EnvValues, AZURE_OPENAI_MODEL : EnvValues,
     AZURE_OPENAI_API_KEY : EnvValues]

\* the three agents of the repository
AgentKinds == {"travel_planner", "budget", "routing"}

(***************************************************************************)
(* Input universe of the content conversion                                *)
(***************************************************************************)
PartTexts == {"", " ", "0", "plan a trip", "Kyoto", "see file"}

PartUris == {"", "gs://b/itinerary.pdf", "https://h/map.png", "file:///t.txt"}

PartBytes == {"", "0xCAFE", "0xBEEF", "AAAA"}

PartMimes == {NoneV, "application/pdf", "image/png", "text/plain"}

\* the a2a parts of the three supported variants
SupportedParts ==
    { AText(t) : t \in PartTexts }
    \cup { AFileUri(u, m) : u \in PartUris, m \in PartMimes }
    \cup { AFileBytes(b, m) : b \in PartBytes, m \in PartMimes }

ExternalParts == SupportedParts \cup {AData}

VARIABLES
    addresses,     \* remote_agent_addresses
    fetched,       \* history: what get_agent_card did for each address tried
    cards,         \* RoutingAgent.cards, in insertion order
    agents,        \* the roster of list_remote_agents behind RoutingAgent.agents
    disc_pc,       \* where _async_init_components stands
    env,           \* the process environment
    constructed,   \* what constructing each agent gave
    conv           \* one part on its way through the two conversions

startVars == <<addresses, fetched, cards, agents, disc_pc, env, constructed>>

auxVars == <<addresses, fetched, cards, agents, disc_pc, env, constructed, conv>>

vars == <<remote_agent_connections, state, uuid_count, sent, task_owner,
          pc, sid, current_task, inbound, log, stream, pending, exc,
          handler, escaped, entered, active, store, creates, cancels,
          addresses, fetched, cards, agents, disc_pc, env, constructed, conv>>

(***************************************************************************)
(* Values of the executor's bookkeeping                                    *)
(***************************************************************************)
\* task_updater.new_agent_message([TextPart(text=...)]), or no message
AgentMessage(text) == [present |-> TRUE, text |-> text]

NoMessage == [present |-> FALSE, text |-> NoneV]

\* task_updater.update_status(state, message=..., final=...)
Status(st, final, msg) ==
    [op |-> "status", state |-> st, final |-> final, message |-> msg,
     parts |-> <<>>]

\* task_updater.add_artifact(parts)
Artifact(parts) ==
    [op |-> "artifact", state |-> NoneV, final |-> FALSE, message |-> NoMessage,
     parts |-> parts]

NoPending == Artifact(<<>>)

\* an exception raised inside the try block: its class, str(e), and how many
\* events had been taken when it was raised
ExcRecord(class, text, at) == [class |-> class, text |-> text, at |-> at]

NoExc == ExcRecord(NoneV, NoneV, 0)

\* no execute call has been made
ExecIdle ==
    /\ pc = [c \in Calls |-> "idle"]
    /\ sid = [c \in Calls |-> "s1"]
    /\ current_task = [c \in Calls |-> FALSE]
    /\ inbound = [c \in Calls |-> <<>>]
    /\ log = [c \in Calls |-> <<>>]
    /\ stream = [c \in Calls |-> <<>>]
    /\ pending = [c \in Calls |-> NoPending]
    /\ exc = [c \in Calls |-> NoExc]
    /\ handler = [c \in Calls |-> NoneV]
    /\ escaped = [c \in Calls |-> NoneV]
    /\ entered = [c \in Calls |-> FALSE]
    /\ active = {}
    /\ store = {}
    /\ creates = [s \in SessionIds |-> 0]
    /\ cancels = <<>>

\* no discovery is run and no agent is constructed
StartIdle ==
    /\ addresses = <<>>
    /\ fetched = <<>>
    /\ cards = <<>>
    /\ agents = <<>>
    /\ disc_pc = "idle"
    /\ env = [AZURE_OPENAI_ENDPOINT |-> "set", AZURE_OPENAI_MODEL |-> "set",
              AZURE_OPENAI_API_KEY |-> "set"]
    /\ constructed = [a \in AgentKinds |-> "no"]

\* no part is being converted
ConvIdle ==
    conv = [pc |-> "idle", a2a |-> AData, genai |-> GOther, back |-> AData]

\* no delegation is made
RoutingIdle ==
    /\ remote_agent_connections = {}
    /\ state = [active_agent |-> NoneV, task_id |-> NoneV, context_id |-> NoneV,
                input_message_metadata |-> [present |-> FALSE,
                                            message_id |-> NoneV]]
    /\ uuid_count = 0
    /\ sent = <<>>
    /\ task_owner = NoneV

(***************************************************************************)
(* RoutingAgent.send_message                                               *)
(***************************************************************************)
\* str(uuid.uuid4()): a value never drawn before
Uuid4(n) == "uuid-" \o ToString(n)

\* a message of an outcome or of an exception: the f-string and what it embeds
Msg(fmt, agent, text) == [fmt |-> fmt, agent |-> agent, text |-> text]

NoMsg == Msg(NoneV, NoneV, <<>>)

\* a dictionary returned to the caller
Returned(status, msg, agent, task) ==
    [kind |-> "return", status |-> status, message |-> msg,
     agent_name |-> agent, task |-> task, exc |-> NoneV]

\* an exception that propagates out of send_message
Raised(e, msg) ==
    [kind |-> "raise", status |-> NoneV, message |-> msg,
     agent_name |-> NoneV, task |-> NoneV, exc |-> e]

NoEnvelope == [agent |-> NoneV, messageId |-> NoneV, taskId |-> NoneV,
               contextId |-> NoneV]

\* client.send_message was not called
NoDispatch == [kind |-> "not_called", text |-> <<>>, is_timeout |-> FALSE,
               success |-> FALSE, is_task |-> FALSE, task |-> NoneV]

\* line 225: the membership test on the directory
AgentNotFound(agent_name, conns) == agent_name \notin conns

\* mutant: the assignment of line 228 is missing
MarkActiveAgent_Missing(st, agent_name) == st

\* line 228: state["active_agent"] = agent_name
MarkActiveAgent(st, agent_name) == [st EXCEPT !.active_agent = agent_name]

\* mutant: line 236 finds params_data already bound
TaskIdUseBeforeDefinition_Bound(st, agent_name) == FALSE

\* lines 234-236: with a truthy task_id and the agent equal to the (just
\* written) active agent, params_data is assigned to before line 252 binds it
TaskIdUseBeforeDefinition(st, agent_name) ==
    Truthy(st.task_id) /\ agent_name = st.active_agent

\* lines 238-241: the state's context id, else a fresh uuid that is not stored
ContextUsesUuid(st) == st.context_id = NoneV

ResolveContextId(st, n) ==
    IF ContextUsesUuid(st) THEN Uuid4(n + 1) ELSE st.context_id

\* lines 243-250: the metadata's message id if truthy, else a fresh uuid
MessageUsesUuid(st) ==
    ~(st.input_message_metadata.present
      /\ Truthy(st.input_message_metadata.message_id))

ResolveMessageId(st, n) ==
    IF MessageUsesUuid(st)
    THEN Uuid4(n + (IF ContextUsesUuid(st) THEN 2 ELSE 1))
    ELSE st.input_message_metadata.message_id

UuidsDrawn(st) ==
    (IF ContextUsesUuid(st) THEN 1 ELSE 0) + (IF MessageUsesUuid(st) THEN 1 ELSE 0)

\* lines 252-264: taskId and contextId are set only when truthy
BuildEnvelope(st, agent_name, n) ==
    [agent     |-> agent_name,
     messageId |-> ResolveMessageId(st, n),
     taskId    |-> IF Truthy(st.task_id) THEN st.task_id ELSE NoneV,
     contextId |-> LET c == ResolveContextId(st, n)
                   IN  IF Truthy(c) THEN c ELSE NoneV]

\* line 281: "timeout" in error_msg.lower() or "timed out" in error_msg.lower()
IsTimeoutText(text) ==
    \E i \in 1..Len(text) : Lower(text[i]) \in {"timeout", "timed out"}

\* lines 279-294: the outcome for an exception of client.send_message
TransportErrorOutcome(agent_name, text) ==
    IF IsTimeoutText(text)
    THEN Returned("error", Msg("Request to {agent} timed out. Please ensure the agent is running and try again.",
                               agent_name, <<>>), agent_name, NoneV)
    ELSE Returned("error", Msg("Failed to communicate with {agent}: {text}",
                               agent_name, text), agent_name, NoneV)

\* lines 296-309: get_current_trace_id is outside any try; requests.post is
\* guarded by except requests.RequestException only
TelemetryRaises(tel) == tel \in {"trace_id_raises", "post_other_exception"}

\* lines 317-340: the outcome for a response
ClassifyResponse(agent_name, r) ==
    IF ~r.success
    THEN Returned("error", Msg("{agent} returned a non-success response",
                               agent_name, <<>>), agent_name, NoneV)
    ELSE IF ~r.is_task
    THEN Returned("error", Msg("{agent} returned a non-task response",
                               agent_name, <<>>), agent_name, NoneV)
    ELSE Returned("success", NoMsg, agent_name, r.task)

\* lines 275-340: everything after the request is built
AfterDispatch(agent_name, r, tel) ==
    IF r.kind = "raise" THEN TransportErrorOutcome(agent_name, r.text)
    ELSE IF TelemetryRaises(tel) THEN Raised("Exception", Msg(tel, NoneV, <<>>))
    ELSE ClassifyResponse(agent_name, r)

\* the whole call: the state it leaves, the envelope it dispatched (if any),
\* the uuids it drew and what the caller gets
SendMessageResult(agent_name, st, n, conns, r, tel) ==
    IF AgentNotFound(agent_name, conns)
    THEN [state |-> st, n |-> n, dispatched |-> FALSE, envelope |-> NoEnvelope,
          outcome |-> Raised("ValueError",
                             Msg("Agent {agent} not found", agent_name, <<>>))]
    ELSE LET st1 == MarkActiveAgent(st, agent_name) IN
         IF TaskIdUseBeforeDefinition(st1, agent_name)
         THEN [state |-> st1, n |-> n, dispatched |-> FALSE,
               envelope |-> NoEnvelope,
               outcome |-> Raised("UnboundLocalError",
                                  Msg("params_data", NoneV, <<>>))]
         ELSE [state |-> st1, n |-> n + UuidsDrawn(st1), dispatched |-> TRUE,
               envelope |-> BuildEnvelope(st1, agent_name, n),
               outcome |-> AfterDispatch(agent_name, r, tel)]

send_message(agent_name, r, tel) ==
    /\ Len(sent) < MaxSends
    /\ LET res == SendMessageResult(agent_name, state, uuid_count,
                                    remote_agent_connections, r, tel)
       IN  /\ state' = res.state
           /\ uuid_count' = res.n
           /\ sent' = Append(sent,
                  [agent_name |-> agent_name,
                   registered |-> agent_name \in remote_agent_connections,
                   before     |-> state,
                   after      |-> res.state,
                   dispatched |-> res.dispatched,
                   envelope   |-> res.envelope,
                   result     |-> r,
                   outcome    |-> res.outcome])
    /\ UNCHANGED <<remote_agent_connections, task_owner>>
    /\ UNCHANGED <<execVars, auxVars>>

RoutingInit ==
    /\ remote_agent_connections \in Directories
    /\ state \in [active_agent : {NoneV, "TravelPlanner"},
                  task_id : StateTaskIds,
                  context_id : StateContextIds,
                  input_message_metadata : StateMetadata]
    /\ task_owner = (IF state.task_id # NoneV THEN state.active_agent ELSE NoneV)
    /\ uuid_count = 0
    /\ sent = <<>>
    /\ ExecIdle
    /\ StartIdle
    /\ ConvIdle

\* lines 225-236: client.send_message is called only when the agent is
\* registered and the task id lines did not raise
DispatchReach(agent_name) ==
    IF \/ AgentNotFound(agent_name, remote_agent_connections)
       \/ TaskIdUseBeforeDefinition(MarkActiveAgent(state, agent_name), agent_name)
    THEN {NoDispatch}
    ELSE DispatchResults

\* lines 279-296: the telemetry step runs only after a response came back
TelemetryReach(r) ==
    IF r.kind = "response" THEN TelemetryResults ELSE {"not_reached"}

RoutingNext ==
    \E a \in AgentNames :
        \E r \in DispatchReach(a) :
            \E tel \in TelemetryReach(r) : send_message(a, r, tel)

RoutingSpec == RoutingInit /\ [][RoutingNext]_vars

(***************************************************************************)
(* TravelPlannerAgentExecutor: content conversion                          *)
(***************************************************************************)
ConversionError == APart("ValueError", NoneV, NoneV, NoneV, NoneV)

GConversionError == GPart("ValueError", FALSE, NoneV, NoneV, FALSE, NoneV, NoneV)

\* _convert_a2a_part_to_genai
convert_a2a_part_to_genai(part) ==
    CASE part.kind = "text"       -> GText(part.text)
      [] part.kind = "file_uri"   -> GFile(part.uri, part.mime)
      [] part.kind = "file_bytes" -> GInline(part.bytes, part.mime)
      [] OTHER                    -> GConversionError

\* _convert_genai_part_to_a2a
convert_genai_part_to_a2a(part) ==
    IF Truthy(part.text) THEN AText(part.text)
    ELSE IF part.file_data THEN AFileUri(part.file_uri, part.file_mime)
    ELSE IF part.inline_data THEN AFileBytes(part.data, part.inline_mime)
    ELSE ConversionError

\* lines 134-139: the list comprehension over context.message.parts raises
\* when one part is of an unsupported variant
InboundConversionFails(parts) ==
    \E i \in 1..Len(parts) : convert_a2a_part_to_genai(parts[i]) = GConversionError

\* line 77: if part.text or part.file_data or part.inline_data
KeepFinalPart(part) ==
    Truthy(part.text) \/ part.file_data \/ part.inline_data

\* lines 74-78: the parts of a final response, converted
FinalParts(ev) ==
    LET kept == SelectSeq(ev.parts, KeepFinalPart)
    IN  [i \in 1..Len(kept) |-> convert_genai_part_to_a2a(kept[i])]

HasText(part) == Truthy(part.text)

\* lines 86-90: the truthy texts of the event's parts, in order
TextParts(ev) ==
    LET kept == SelectSeq(ev.parts, HasText)
    IN  [i \in 1..Len(kept) |-> kept[i].text]

RECURSIVE Join_Reversed(_)
\* mutant: the fragments are joined last to first
Join_Reversed(texts) ==
    IF texts = <<>> THEN "" ELSE Join_Reversed(Tail(texts)) \o Head(texts)

RECURSIVE Join(_)
\* line 92: "".join(text_parts)
Join(texts) ==
    IF texts = <<>> THEN "" ELSE Head(texts) \o Join(Tail(texts))

\* lines 101-103: [new_text_artifact(name="stream", text=".")]
PlaceholderParts == <<APart("artifact:stream", ".", NoneV, NoneV, NoneV)>>

\* line 114: f"Sorry, something went wrong: {str(e)}"
FailureText(text) == "Sorry, something went wrong: " \o text

AttributeErrorText == "'NoneType' object has no attribute 'parts'"

RunnerErrorText == "model call failed"

SinkErrorText == "event queue is closed"

(***************************************************************************)
(* TravelPlannerAgentExecutor: execute, _process_request, cancel           *)
(***************************************************************************)
\* mutant: the discard stands at the end of the try and except blocks, not in
\* a finally clause
Discard_NotInFinally(act, s, how) ==
    IF how \in {"handler_raised", "base_exception"} THEN act ELSE act \ {s}

\* line 119: finally: self._active_sessions.discard(session_id), on each way
\* out of the try statement
Discard(act, s, how) == act \ {s}

\* where the body of the loop goes for one event, up to its first await:
\* the updater call it is about to make, or the exception it raised
EventStep(ev) ==
    IF ev.final
    THEN IF ~ev.has_content
         THEN [pc |-> "failed", pending |-> NoPending, err |-> AttributeErrorText]
         ELSE LET parts == FinalParts(ev) IN
              IF \E i \in 1..Len(parts) : parts[i] = ConversionError
              THEN [pc |-> "failed", pending |-> NoPending,
                    err |-> "Unsupported GenAI part"]
              ELSE IF parts # <<>>
              THEN [pc |-> "add_artifact", pending |-> Artifact(parts),
                    err |-> NoneV]
              ELSE [pc |-> "completed", pending |-> NoPending, err |-> NoneV]
    ELSE IF ~ev.calls
    THEN IF ~ev.has_content
         THEN [pc |-> "failed", pending |-> NoPending, err |-> AttributeErrorText]
         ELSE LET texts == TextParts(ev) IN
              IF texts # <<>>
              THEN [pc |-> "interim",
                    pending |-> Status("working", FALSE, AgentMessage(Join(texts))),
                    err |-> NoneV]
              ELSE [pc |-> "interim", pending |-> Artifact(PlaceholderParts),
                    err |-> NoneV]
    ELSE [pc |-> "interim", pending |-> Status("working", FALSE, NoMessage),
          err |-> NoneV]

\* mutant: submitted is emitted whether or not the request has a task
EmitsSubmitted_Always(has_task) == TRUE

\* line 129: if not context.current_task
EmitsSubmitted(has_task) == ~has_task

\* lines 126-130: the updater is made; submitted is emitted when the request
\* has no current task
ExecuteSubmitted(c, sr) ==
    /\ pc[c] = "start"
    /\ IF ~EmitsSubmitted(current_task[c])
       THEN /\ sr = "ok"
            /\ pc' = [pc EXCEPT ![c] = "working"]
            /\ UNCHANGED <<log, escaped>>
       ELSE IF sr = "ok"
       THEN /\ log' = [log EXCEPT ![c] = Append(@, Status("submitted", FALSE, NoMessage))]
            /\ pc' = [pc EXCEPT ![c] = "working"]
            /\ UNCHANGED escaped
       ELSE /\ escaped' = [escaped EXCEPT ![c] = "SinkError"]
            /\ pc' = [pc EXCEPT ![c] = "done"]
            /\ UNCHANGED log
    /\ UNCHANGED <<sid, current_task, inbound, stream, pending, exc, handler,
                   entered, active, store, creates, cancels>>
    /\ UNCHANGED <<routingVars, auxVars>>

\* line 131: await updater.update_status(TaskState.working)
ExecuteWorking(c, sr) ==
    /\ pc[c] = "working"
    /\ IF sr = "ok"
       THEN /\ log' = [log EXCEPT ![c] = Append(@, Status("working", FALSE, NoMessage))]
            /\ pc' = [pc EXCEPT ![c] = "convert"]
            /\ UNCHANGED escaped
       ELSE /\ escaped' = [escaped EXCEPT ![c] = "SinkError"]
            /\ pc' = [pc EXCEPT ![c] = "done"]
            /\ UNCHANGED log
    /\ UNCHANGED <<sid, current_task, inbound, stream, pending, exc, handler,
                   entered, active, store, creates, cancels>>
    /\ UNCHANGED <<routingVars, auxVars>>

\* lines 134-145: the inbound parts are converted, outside any try; then
\* _process_request is entered and awaits get_session
ExecuteConvert(c) ==
    /\ pc[c] = "convert"
    /\ IF InboundConversionFails(inbound[c])
       THEN /\ escaped' = [escaped EXCEPT ![c] = "ValueError"]
            /\ pc' = [pc EXCEPT ![c] = "done"]
       ELSE /\ pc' = [pc EXCEPT ![c] = "get_session"]
            /\ UNCHANGED escaped
    /\ UNCHANGED <<sid, current_task, inbound, log, stream, pending, exc,
                   handler, entered, active, store, creates, cancels>>
    /\ UNCHANGED <<routingVars, auxVars>>

\* lines 61-64 with 167-172: get_session returns; a session that exists is
\* used and its id joins the tracking set; a missing one is to be created
UpsertGetSession(c, res) ==
    /\ pc[c] = "get_session"
    /\ IF res = "raise"
       THEN /\ escaped' = [escaped EXCEPT ![c] = "StoreError"]
            /\ pc' = [pc EXCEPT ![c] = "done"]
            /\ UNCHANGED <<active, entered>>
       ELSE IF sid[c] \in store
       THEN /\ active' = active \cup {sid[c]}
            /\ entered' = [entered EXCEPT ![c] = TRUE]
            /\ pc' = [pc EXCEPT ![c] = "next"]
            /\ UNCHANGED escaped
       ELSE /\ pc' = [pc EXCEPT ![c] = "create_session"]
            /\ UNCHANGED <<active, entered, escaped>>
    /\ UNCHANGED <<sid, current_task, inbound, log, stream, pending, exc,
                   handler, store, creates, cancels>>
    /\ UNCHANGED <<routingVars, auxVars>>

\* lines 61-64 with 173-178: create_session returns; the id joins the
\* tracking set
UpsertCreateSession(c, res) ==
    /\ pc[c] = "create_session"
    /\ creates' = [creates EXCEPT ![sid[c]] = @ + 1]
    /\ IF res = "raise"
       THEN /\ escaped' = [escaped EXCEPT ![c] = "StoreError"]
            /\ pc' = [pc EXCEPT ![c] = "done"]
            /\ UNCHANGED <<active, entered, store>>
       ELSE /\ store' = store \cup {sid[c]}
            /\ active' = active \cup {sid[c]}
            /\ entered' = [entered EXCEPT ![c] = TRUE]
            /\ pc' = [pc EXCEPT ![c] = "next"]
            /\ UNCHANGED escaped
    /\ UNCHANGED <<sid, current_task, inbound, log, stream, pending, exc,
                   handler, cancels>>
    /\ UNCHANGED <<routingVars, auxVars>>

\* lines 67-107: one step of the async for, up to the first updater call
RunnerNext(c, r) ==
    /\ pc[c] = "next"
    /\ CASE r.kind = "event" ->
              /\ Len(stream[c]) < MaxEvents
              /\ LET step == EventStep(r.event) IN
                 /\ stream' = [stream EXCEPT ![c] = Append(@, r.event)]
                 /\ pc' = [pc EXCEPT ![c] = step.pc]
                 /\ pending' = [pending EXCEPT ![c] = step.pending]
                 /\ exc' = IF step.pc = "failed"
                           THEN [exc EXCEPT ![c] =
                                   ExcRecord("Exception", step.err,
                                             Len(stream[c]) + 1)]
                           ELSE exc
              /\ UNCHANGED <<active, escaped>>
         [] r.kind = "end" ->
              /\ pc' = [pc EXCEPT ![c] = "done"]
              /\ active' = Discard(active, sid[c], "exhausted")
              /\ UNCHANGED <<stream, pending, exc, escaped>>
         [] r.kind = "raise" ->
              /\ pc' = [pc EXCEPT ![c] = "failed"]
              /\ exc' = [exc EXCEPT ![c] =
                           ExcRecord("Exception", RunnerErrorText, Len(stream[c]))]
              /\ UNCHANGED <<stream, pending, active, escaped>>
         [] r.kind = "raise_base" ->
              /\ pc' = [pc EXCEPT ![c] = "done"]
              /\ exc' = [exc EXCEPT ![c] =
                           ExcRecord("BaseException", "", Len(stream[c]))]
              /\ escaped' = [escaped EXCEPT ![c] = "CancelledError"]
              /\ active' = Discard(active, sid[c], "base_exception")
              /\ UNCHANGED <<stream, pending>>
    /\ UNCHANGED <<sid, current_task, inbound, log, handler, entered, store,
                   creates, cancels>>
    /\ UNCHANGED <<routingVars, auxVars>>

\* where a raise of an updater call inside the try block leads
SinkRaised(c) ==
    /\ pc' = [pc EXCEPT ![c] = "failed"]
    /\ exc' = [exc EXCEPT ![c] =
                 ExcRecord("Exception", SinkErrorText, Len(stream[c]))]
    /\ pending' = [pending EXCEPT ![c] = NoPending]
    /\ UNCHANGED <<log, active>>

\* line 80: await task_updater.add_artifact(parts)
SinkAddArtifact(c, sr) ==
    /\ pc[c] = "add_artifact"
    /\ IF sr = "ok"
       THEN /\ log' = [log EXCEPT ![c] = Append(@, pending[c])]
            /\ pending' = [pending EXCEPT ![c] = NoPending]
            /\ pc' = [pc EXCEPT ![c] = "completed"]
            /\ UNCHANGED <<exc, active>>
       ELSE SinkRaised(c)
    /\ UNCHANGED <<sid, current_task, inbound, stream, handler, escaped,
                   entered, store, creates, cancels>>
    /\ UNCHANGED <<routingVars, auxVars>>

\* mutant: the break of line 82 is missing
AfterCompleted_NoBreak == "next"

\* where the loop goes after the completed status was accepted (line 82: break)
AfterCompleted == "done"

\* lines 81-82: await task_updater.update_status(completed, final=True); break
SinkCompleted(c, sr) ==
    /\ pc[c] = "completed"
    /\ IF sr = "ok"
       THEN /\ log' = [log EXCEPT ![c] = Append(@, Status("completed", TRUE, NoMessage))]
            /\ pc' = [pc EXCEPT ![c] = AfterCompleted]
            /\ active' = IF AfterCompleted = "done"
                         THEN Discard(active, sid[c], "break") ELSE active
            /\ UNCHANGED <<exc, pending>>
       ELSE SinkRaised(c)
    /\ UNCHANGED <<sid, current_task, inbound, stream, handler, escaped,
                   entered, store, creates, cancels>>
    /\ UNCHANGED <<routingVars, auxVars>>

\* lines 93-107: the updater call of a non-final event, then the next event
SinkInterim(c, sr) ==
    /\ pc[c] = "interim"
    /\ IF sr = "ok"
       THEN /\ log' = [log EXCEPT ![c] = Append(@, pending[c])]
            /\ pending' = [pending EXCEPT ![c] = NoPending]
            /\ pc' = [pc EXCEPT ![c] = "next"]
            /\ UNCHANGED <<exc, active>>
       ELSE SinkRaised(c)
    /\ UNCHANGED <<sid, current_task, inbound, stream, handler, escaped,
                   entered, store, creates, cancels>>
    /\ UNCHANGED <<routingVars, auxVars>>

\* mutant: the failed status is not marked final
FailedStatus_NotFinal(e) ==
    Status("failed", FALSE, AgentMessage(FailureText(e.text)))

\* the status the except block reports
FailedStatus(e) == Status("failed", TRUE, AgentMessage(FailureText(e.text)))

\* lines 109-119: except Exception: the failed status is awaited; finally
SinkFailed(c, sr) ==
    /\ pc[c] = "failed"
    /\ handler' = [handler EXCEPT ![c] = sr]
    /\ pc' = [pc EXCEPT ![c] = "done"]
    /\ IF sr = "ok"
       THEN /\ log' = [log EXCEPT ![c] = Append(@, FailedStatus(exc[c]))]
            /\ active' = Discard(active, sid[c], "handled")
            /\ UNCHANGED escaped
       ELSE /\ escaped' = [escaped EXCEPT ![c] = "SinkError"]
            /\ active' = Discard(active, sid[c], "handler_raised")
            /\ UNCHANGED log
    /\ UNCHANGED <<sid, current_task, inbound, stream, pending, exc, entered,
                   store, creates, cancels>>
    /\ UNCHANGED <<routingVars, auxVars>>

\* mutant: cancel returns normally once it has cleaned up an active session
CancelResult_ReturnsAfterCleanup(s, act) ==
    [active  |-> IF s \in act THEN act \ {s} ELSE act,
     outcome |-> IF s \in act THEN "None"
                 ELSE "ServerError(UnsupportedOperationError)"]

\* lines 155-163: what cancel leaves in the tracking set and gives the caller
CancelResult(s, act) ==
    [active  |-> IF s \in act THEN act \ {s} ELSE act,
     outcome |-> "ServerError(UnsupportedOperationError)"]

\* lines 149-163
cancel(s) ==
    /\ Len(cancels) < MaxCancels
    /\ LET res == CancelResult(s, active) IN
       /\ active' = res.active
       /\ cancels' = Append(cancels,
              [sid |-> s, was_active |-> s \in active,
               streaming |-> \E c \in Calls :
                               sid[c] = s /\ pc[c] \in {"next", "interim",
                                   "add_artifact", "completed", "failed"},
               active_after |-> res.active,
               outcome |-> res.outcome])
    /\ UNCHANGED <<pc, sid, current_task, inbound, log, stream, pending, exc,
                   handler, escaped, entered, store, creates>>
    /\ UNCHANGED <<routingVars, auxVars>>

\* one execute call on a fresh executor; the session may or may not exist
Init ==
    /\ pc = [c \in Calls |-> IF c = 1 THEN "start" ELSE "idle"]
    /\ \E s \in SessionIds : sid = [c \in Calls |-> IF c = 1 THEN s ELSE "s1"]
    /\ \E t \in BOOLEAN : current_task = [c \in Calls |-> c = 1 /\ t]
    /\ \E m \in InboundMessages :
          inbound = [c \in Calls |-> IF c = 1 THEN m ELSE <<>>]
    /\ log = [c \in Calls |-> <<>>]
    /\ stream = [c \in Calls |-> <<>>]
    /\ pending = [c \in Calls |-> NoPending]
    /\ exc = [c \in Calls |-> NoExc]
    /\ handler = [c \in Calls |-> NoneV]
    /\ escaped = [c \in Calls |-> NoneV]
    /\ entered = [c \in Calls |-> FALSE]
    /\ active = {}
    /\ store \in SUBSET SessionIds
    /\ creates = [s \in SessionIds |-> 0]
    /\ cancels = <<>>
    /\ RoutingIdle
    /\ StartIdle
    /\ ConvIdle

Next ==
    \/ \E c \in Calls, sr \in SinkResults : ExecuteSubmitted(c, sr)
    \/ \E c \in Calls, sr \in SinkResults : ExecuteWorking(c, sr)
    \/ \E c \in Calls : ExecuteConvert(c)
    \/ \E c \in Calls, res \in StoreResults : UpsertGetSession(c, res)
    \/ \E c \in Calls, res \in StoreResults : UpsertCreateSession(c, res)
    \/ \E c \in Calls, r \in RunnerResults : RunnerNext(c, r)
    \/ \E c \in Calls, sr \in SinkResults : SinkAddArtifact(c, sr)
    \/ \E c \in Calls, sr \in SinkResults : SinkCompleted(c, sr)
    \/ \E c \in Calls, sr \in SinkResults : SinkInterim(c, sr)
    \/ \E c \in Calls, sr \in SinkResults : SinkFailed(c, sr)
    \/ \E s \in SessionIds : cancel(s)

Spec == Init /\ [][Next]_vars

(***************************************************************************)
(* Start-up: RoutingAgent._async_init_components and agent construction    *)
(***************************************************************************)
\* mutant: only the except httpx.ConnectError clause is there
FetchErrorHandled_ConnectOnly(kind) == kind = "ConnectError"

\* lines 104-107: except httpx.ConnectError, then except Exception
FetchErrorHandled(kind) == kind \in {"ConnectError", "Exception"}

\* lines 102-103: assignment into a dict keyed by card.name; a key that is
\* already there keeps its place and gets the new value
DictPut(cs, card) ==
    IF \E i \in 1..Len(cs) : cs[i].name = card.name
    THEN [i \in 1..Len(cs) |-> IF cs[i].name = card.name THEN card ELSE cs[i]]
    ELSE Append(cs, card)

\* lines 195-207
list_remote_agents(cs) ==
    IF cs = <<>> THEN <<>>
    ELSE [i \in 1..Len(cs) |->
            [name |-> cs[i].name, description |-> cs[i].description]]

\* lines 92-107: one turn of the loop over the addresses
ResolveCard(r) ==
    /\ disc_pc = "resolving"
    /\ Len(fetched) < Len(addresses)
    /\ fetched' = Append(fetched, [address |-> addresses[Len(fetched) + 1],
                                   kind |-> r.kind, card |-> r.card])
    /\ IF r.kind = "card"
       THEN /\ cards' = DictPut(cards, r.card)
            /\ remote_agent_connections' =
                   remote_agent_connections \cup {r.card.name}
            /\ UNCHANGED disc_pc
       ELSE /\ disc_pc' = IF FetchErrorHandled(r.kind) THEN disc_pc ELSE "raised"
            /\ UNCHANGED <<cards, remote_agent_connections>>
    /\ UNCHANGED <<addresses, agents, env, constructed, conv>>
    /\ UNCHANGED <<state, uuid_count, sent, task_owner>>
    /\ UNCHANGED execVars

\* lines 109-113: the roster is taken from list_remote_agents
PopulateAgents ==
    /\ disc_pc = "resolving"
    /\ Len(fetched) = Len(addresses)
    /\ agents' = list_remote_agents(cards)
    /\ disc_pc' = "done"
    /\ UNCHANGED <<addresses, fetched, cards, env, constructed, conv>>
    /\ UNCHANGED <<routingVars, execVars>>

\* travel_agent/agent.py line 22: not all([AZURE_ENDPOINT, AZURE_MODEL, AZURE_API_KEY])
TravelCredentialsMissing(e) ==
    ~(Truthy(e.AZURE_OPENAI_ENDPOINT) /\ Truthy(e.AZURE_OPENAI_MODEL)
      /\ Truthy(e.AZURE_OPENAI_API_KEY))

\* budget_agent/agent.py line 22: the same test
BudgetCredentialsMissing(e) ==
    ~(Truthy(e.AZURE_OPENAI_ENDPOINT) /\ Truthy(e.AZURE_OPENAI_MODEL)
      /\ Truthy(e.AZURE_OPENAI_API_KEY))

\* routing_agent.py lines 126-146: api_key and api_base are read with getenv
\* and handed to LiteLlm as they are; nothing is tested
RoutingCredentialsTested(e) == FALSE

create_travel_planner_agent ==
    /\ constructed["travel_planner"] = "no"
    /\ constructed' = [constructed EXCEPT !["travel_planner"] =
                         IF TravelCredentialsMissing(env) THEN "ValueError"
                         ELSE "constructed"]
    /\ UNCHANGED <<addresses, fetched, cards, agents, disc_pc, env, conv>>
    /\ UNCHANGED <<routingVars, execVars>>

create_budget_agent ==
    /\ constructed["budget"] = "no"
    /\ constructed' = [constructed EXCEPT !["budget"] =
                         IF BudgetCredentialsMissing(env) THEN "ValueError"
                         ELSE "constructed"]
    /\ UNCHANGED <<addresses, fetched, cards, agents, disc_pc, env, conv>>
    /\ UNCHANGED <<routingVars, execVars>>

\* RoutingAgent.create_agent, called once discovery has returned (line 358)
create_agent ==
    /\ disc_pc = "done"
    /\ constructed["routing"] = "no"
    /\ constructed' = [constructed EXCEPT !["routing"] =
                         IF RoutingCredentialsTested(env) THEN "ValueError"
                         ELSE "constructed"]
    /\ UNCHANGED <<addresses, fetched, cards, agents, disc_pc, env, conv>>
    /\ UNCHANGED <<routingVars, execVars>>

StartInit ==
    /\ \E n \in 0..MaxAddresses : addresses = AddressList(n)
    /\ fetched = <<>>
    /\ cards = <<>>
    /\ agents = <<>>
    /\ disc_pc = "resolving"
    /\ env \in Environments
    /\ constructed = [a \in AgentKinds |-> "no"]
    /\ RoutingIdle
    /\ ExecIdle
    /\ ConvIdle

StartNext ==
    \/ \E r \in FetchResults : ResolveCard(r)
    \/ PopulateAgents
    \/ create_travel_planner_agent
    \/ create_budget_agent
    \/ create_agent

StartSpec == StartInit /\ [][StartNext]_vars

(***************************************************************************)
(* One part through both conversions                                       *)
(***************************************************************************)
\* _convert_a2a_part_to_genai applied to the part
ToGenai ==
    /\ conv.pc = "a2a"
    /\ LET g == convert_a2a_part_to_genai(conv.a2a) IN
       conv' = [conv EXCEPT !.genai = g,
                            !.pc = IF g = GConversionError THEN "raised_in"
                                   ELSE "genai"]
    /\ UNCHANGED <<routingVars, execVars, startVars>>

\* _convert_genai_part_to_a2a applied to what the first conversion gave
ToA2a ==
    /\ conv.pc = "genai"
    /\ LET b == convert_genai_part_to_a2a(conv.genai) IN
       conv' = [conv EXCEPT !.back = b,
                            !.pc = IF b = ConversionError THEN "raised_back"
                                   ELSE "back"]
    /\ UNCHANGED <<routingVars, execVars, startVars>>

ConvInit ==
    /\ conv \in { [pc |-> "a2a", a2a |-> p, genai |-> GOther, back |-> AData] :
                    p \in ExternalParts }
    /\ RoutingIdle
    /\ ExecIdle
    /\ StartIdle

ConvNext == ToGenai \/ ToA2a

ConvSpec == ConvInit /\ [][ConvNext]_vars

(***************************************************************************)
(* Two overlapping execute calls, no cancel                                *)
(***************************************************************************)
\* the events of the overlapping calls: one interim text, one final answer
ConcEvents ==
    { Event(FALSE, FALSE, TRUE, <<GText("Looking"), GText(" up")>>),
      Event(TRUE, FALSE, TRUE, <<GText("Day 1: Kyoto")>>) }

ConcRunnerResults ==
    { [kind |-> "event", event |-> e] : e \in ConcEvents }
    \cup { [kind |-> k, event |-> NoEvent] : k \in {"end", "raise"} }

\* two execute calls on a fresh executor, for the same or for different
\* sessions, each of which may or may not exist
ConcInit ==
    /\ pc = [c \in Calls |-> "start"]
    /\ sid \in [Calls -> SessionIds]
    /\ current_task = [c \in Calls |-> TRUE]
    /\ inbound = [c \in Calls |-> <<AText("plan a trip")>>]
    /\ log = [c \in Calls |-> <<>>]
    /\ stream = [c \in Calls |-> <<>>]
    /\ pending = [c \in Calls |-> NoPending]
    /\ exc = [c \in Calls |-> NoExc]
    /\ handler = [c \in Calls |-> NoneV]
    /\ escaped = [c \in Calls |-> NoneV]
    /\ entered = [c \in Calls |-> FALSE]
    /\ active = {}
    /\ store \in SUBSET SessionIds
    /\ creates = [s \in SessionIds |-> 0]
    /\ cancels = <<>>
    /\ RoutingIdle
    /\ StartIdle
    /\ ConvIdle

ConcNext ==
    \/ \E c \in Calls, sr \in SinkResults : ExecuteSubmitted(c, sr)
    \/ \E c \in Calls, sr \in SinkResults : ExecuteWorking(c, sr)
    \/ \E c \in Calls : ExecuteConvert(c)
    \/ \E c \in Calls, res \in StoreResults : UpsertGetSession(c, res)
    \/ \E c \in Calls, res \in StoreResults : UpsertCreateSession(c, res)
    \/ \E c \in Calls, r \in ConcRunnerResults : RunnerNext(c, r)
    \/ \E c \in Calls, sr \in SinkResults : SinkAddArtifact(c, sr)
    \/ \E c \in Calls, sr \in SinkResults : SinkCompleted(c, sr)
    \/ \E c \in Calls, sr \in SinkResults : SinkInterim(c, sr)
    \/ \E c \in Calls, sr \in SinkResults : SinkFailed(c, sr)

ConcSpec == ConcInit /\ [][ConcNext]_vars

(***************************************************************************)
(* Properties of the delegation core                                       *)
(***************************************************************************)
Attempts == 1..Len(sent)

\* C2 (as claimed): delegating to a name that is not in the directory returns
\* the outcome {status: error, message: "Agent <name> not found"} to the
\* caller, and nothing is dispatched.
C2_UnknownAgentReturnsErrorOutcome ==
    \A i \in Attempts :
        ~sent[i].registered =>
            /\ ~sent[i].dispatched
            /\ sent[i].outcome.kind = "return"
            /\ sent[i].outcome.status = "error"
            /\ sent[i].outcome.message =
                   Msg("Agent {agent} not found", sent[i].agent_name, <<>>)

\* C3 (as claimed): after any delegation attempt, to an unknown agent too, the
\* state's active_agent is the attempted name.
C3_ActiveAgentAfterAnyAttempt ==
    \A i \in Attempts : sent[i].after.active_agent = sent[i].agent_name

\* C3 (amended): after a delegation attempt to a registered agent, however it
\* ends, the state's active_agent is the attempted name; an attempt to an
\* unregistered name leaves the session state as it was.
C3_ActiveAgentAfterRegisteredAttempt ==
    /\ \A i \in Attempts :
          IF sent[i].registered
          THEN sent[i].after.active_agent = sent[i].agent_name
          ELSE sent[i].after = sent[i].before
    /\ (sent # <<>> => state = sent[Len(sent)].after)

\* a registered agent other than the active one was attempted and the attempt
\* did not succeed
C3_Witness ==
    \E i \in Attempts :
        /\ sent[i].registered
        /\ sent[i].before.active_agent # sent[i].agent_name
        /\ sent[i].outcome.status # "success"
        /\ state.active_agent = sent[i].agent_name

\* C4 (as claimed): with an established task_id in the state and a registered
\* agent, send_message dispatches an envelope carrying that task_id and
\* returns an outcome.
C4_FollowUpCarriesTaskId ==
    \A i \in Attempts :
        (sent[i].registered /\ Truthy(sent[i].before.task_id)) =>
            /\ sent[i].dispatched
            /\ sent[i].envelope.taskId = sent[i].before.task_id
            /\ sent[i].outcome.kind = "return"

\* C5: no envelope dispatched to an agent carries a task id that was
\* established while a different agent was the active agent.
C5_NoStaleTaskIdDispatched ==
    \A i \in Attempts :
        (sent[i].dispatched /\ sent[i].envelope.taskId # NoneV) =>
            ~(task_owner # NoneV /\ task_owner # sent[i].envelope.agent)

\* a task id was established under one agent and a delegation to another
\* registered agent has been made
C5_Witness ==
    \E i \in Attempts :
        /\ sent[i].registered
        /\ Truthy(sent[i].before.task_id)
        /\ task_owner # NoneV
        /\ task_owner # sent[i].agent_name
        /\ state.active_agent = sent[i].agent_name

\* C6 (as claimed): on a session state that starts without a context_id, every
\* dispatched envelope carries the same context id.
C6_OneContextIdPerSession ==
    \A i, j \in Attempts :
        (sent[1].before.context_id = NoneV
         /\ sent[i].dispatched /\ sent[j].dispatched) =>
            sent[i].envelope.contextId = sent[j].envelope.contextId

(***************************************************************************)
(* Properties of the streaming executor                                    *)
(***************************************************************************)
Terminal(e) == e.op = "status" /\ e.final /\ e.state \in {"completed", "failed"}

HasTerminal(c) == \E i \in 1..Len(log[c]) : Terminal(log[c][i])

LastEntry(c) == log[c][Len(log[c])]

\* the event has content with a part whose text is non-empty
CarriesText(ev) ==
    ev.has_content /\ \E k \in 1..Len(ev.parts) : Truthy(ev.parts[k].text)

\* the artifacts of a call's log that hold a text part of the event
ArtifactsWithTextOf(c, ev) ==
    { j \in 1..Len(log[c]) :
        /\ log[c][j].op = "artifact"
        /\ \E k \in 1..Len(log[c][j].parts), m \in 1..Len(ev.parts) :
              /\ log[c][j].parts[k].kind = "text"
              /\ log[c][j].parts[k].text = ev.parts[m].text }

\* C1 (as claimed): every execute call, whatever the runner, the session
\* service and the conversion do, ends with a terminal status (completed or
\* failed) delivered to the sink and with no exception leaving execute.
C1_AlwaysTerminalNoEscape ==
    \A c \in Calls :
        pc[c] = "done" => (HasTerminal(c) /\ escaped[c] = NoneV)

C9_SessionRemovedOnExit ==
    \A c \in Calls :
        (pc[c] = "done" /\ entered[c]) => sid[c] \notin active

\* the sink call of the except block itself raised
C9_Witness ==
    \E c \in Calls :
        /\ pc[c] = "done"
        /\ entered[c]
        /\ handler[c] = "raise"
        /\ escaped[c] # NoneV

\* C10: every cancel call ends in an unsupported-operation error, leaves the
\* session id out of the tracking set, and changes neither the position of
\* any execute call nor what the sink has received.
C10_CancelUnsupportedAndInert ==
    [][ cancels' # cancels =>
          LET r == cancels'[Len(cancels')] IN
          /\ r.outcome = "ServerError(UnsupportedOperationError)"
          /\ r.sid \notin active'
          /\ active' = active \ {r.sid}
          /\ pc' = pc
          /\ log' = log
          /\ stream' = stream
          /\ pending' = pending ]_vars

\* a cancel arrived while the session's stream was running, and the call went
\* on to its completed status
C10_Witness ==
    /\ \E i \in 1..Len(cancels) :
          /\ cancels[i].was_active
          /\ cancels[i].streaming
          /\ cancels[i].sid = sid[1]
    /\ pc[1] = "done"
    /\ log[1] # <<>>
    /\ LastEntry(1) = Status("completed", TRUE, NoMessage)

(***************************************************************************)
(* Properties of overlapping execute calls                                 *)
(***************************************************************************)
\* C11 (as claimed): under any interleaving of execute calls, while no call
\* on the session store fails, the store is asked to create a session for a
\* given id at most once.
C11_SessionCreatedAtMostOnce ==
    (\A c \in Calls : escaped[c] # "StoreError") =>
        \A s \in SessionIds : creates[s] <= 1

\* C12 (as claimed): when the inbound message holds a part of an unsupported
\* variant, execute ends with a terminal failed status that carries a
\* message, and no exception leaves execute.
C12_UnsupportedInboundFails ==
    \A c \in Calls :
        (pc[c] = "done" /\ InboundConversionFails(inbound[c])
         /\ escaped[c] # "SinkError") =>
            /\ log[c] # <<>>
            /\ LastEntry(c).state = "failed"
            /\ LastEntry(c).final
            /\ LastEntry(c).message.present
            /\ escaped[c] = NoneV

(***************************************************************************)
(* Properties of the content conversion                                    *)
(***************************************************************************)
\* C13 (as claimed): every part of a supported variant, a text part with
\* empty text included, comes back from external -> internal -> external as
\* an equal part.
C13_RoundTrip ==
    (conv.a2a \in SupportedParts /\ conv.pc \notin {"a2a", "genai"}) =>
        /\ conv.pc = "back"
        /\ conv.back = conv.a2a

(***************************************************************************)
(* Properties of start-up                                                  *)
(***************************************************************************)
\* the cards of the endpoints that answered
RespondedCards ==
    { fetched[i].card : i \in { j \in 1..Len(fetched) : fetched[j].kind = "card" } }

RosterCards == { Card(agents[i].name, agents[i].description) : i \in 1..Len(agents) }

\* the last card fetched under a name
LastCardNamed(n) ==
    LET is == { i \in 1..Len(fetched) :
                  fetched[i].kind = "card" /\ fetched[i].card.name = n }
    IN  fetched[CHOOSE i \in is : \A j \in is : j <= i].card

\* C14 (as claimed): discovery lets no exception escape, tries every address
\* whatever the earlier ones did, and ends with a roster that holds exactly
\* the descriptors of the endpoints that responded.
C14_RosterIsAllResponders ==
    /\ disc_pc # "raised"
    /\ disc_pc = "done" =>
         /\ Len(fetched) = Len(addresses)
         /\ RosterCards = RespondedCards

\* C14 (amended): discovery lets no exception of a descriptor fetch escape and
\* tries every address whatever the earlier ones did; the roster, keyed by
\* agent name, holds one descriptor for each name that some responding
\* endpoint served, and it is the descriptor of the last such endpoint.
C14_RosterIsLastResponderPerName ==
    /\ disc_pc # "raised"
    /\ disc_pc = "done" =>
         /\ Len(fetched) = Len(addresses)
         /\ { agents[i].name : i \in 1..Len(agents) } =
                { k.name : k \in RespondedCards }
         /\ \A i, j \in 1..Len(agents) :
                agents[i].name = agents[j].name => i = j
         /\ \A i \in 1..Len(agents) :
                Card(agents[i].name, agents[i].description) =
                    LastCardNamed(agents[i].name)
         /\ remote_agent_connections = { k.name : k \in RespondedCards }

\* the first address failed, the second answered, and the roster holds it
C14_Witness ==
    /\ disc_pc = "done"
    /\ Len(fetched) = 2
    /\ fetched[1].kind = "Exception"
    /\ fetched[2].kind = "card"
    /\ Len(agents) = 1

\* what each agent's model needs from the environment
RequiredVariablesSet(a, e) ==
    IF a = "routing"
    THEN Truthy(e.AZURE_OPENAI_ENDPOINT) /\ Truthy(e.AZURE_OPENAI_API_KEY)
    ELSE Truthy(e.AZURE_OPENAI_ENDPOINT) /\ Truthy(e.AZURE_OPENAI_MODEL)
         /\ Truthy(e.AZURE_OPENAI_API_KEY)

\* C17 (as claimed): for each of the three agents, construction with a
\* required credential or endpoint absent fails with an error; no agent is
\* constructed without them.
C17_ConstructionFailsFast ==
    \A a \in AgentKinds :
        (constructed[a] # "no" /\ ~RequiredVariablesSet(a, env)) =>
            constructed[a] = "ValueError"

(***************************************************************************)
(* Properties of the outcome of a delegation                               *)
(***************************************************************************)
\* C15 (as claimed): whatever the telemetry step does, a delegation whose
\* dispatch came back with a response returns the outcome it returns when
\* telemetry succeeds, and nothing is raised to the caller.
C15_TelemetryNeverFailsDelegation ==
    \A i \in Attempts :
        (sent[i].dispatched /\ sent[i].result.kind = "response") =>
            /\ sent[i].outcome.kind = "return"
            /\ sent[i].outcome = ClassifyResponse(sent[i].agent_name, sent[i].result)

\* the message says that the request timed out
MentionsTimedOut(m) ==
    \/ m.fmt = "Request to {agent} timed out. Please ensure the agent is running and try again."
    \/ \E k \in 1..Len(m.text) : Lower(m.text[k]) = "timed out"

\* the classification table of the specification
TableOutcomeHolds(agent_name, r, o) ==
    /\ o.kind = "return"
    /\ o.agent_name = agent_name
    /\ CASE r.kind = "raise" /\ r.is_timeout ->
                o.status = "error" /\ MentionsTimedOut(o.message)
         [] r.kind = "raise" /\ ~r.is_timeout ->
                o.status = "error" /\ o.message.text = r.text
                /\ o.message.fmt = "Failed to communicate with {agent}: {text}"
         [] r.kind = "response" /\ ~r.success ->
                o.status = "error"
                /\ o.message = Msg("{agent} returned a non-success response",
                                   agent_name, <<>>)
         [] r.kind = "response" /\ r.success /\ ~r.is_task ->
                o.status = "error"
                /\ o.message = Msg("{agent} returned a non-task response",
                                   agent_name, <<>>)
         [] OTHER ->
                o.status = "success" /\ o.task = r.task

\* C16 (as claimed): for a registered agent the outcome of a delegation is
\* the one the classification table gives for the dispatch result, and it
\* carries the agent name.
C16_OutcomeFollowsTable ==
    \A i \in Attempts :
        sent[i].dispatched =>
            TableOutcomeHolds(sent[i].agent_name, sent[i].result, sent[i].outcome)

(***************************************************************************)
(* Properties of the order of a call's updates                             *)
(***************************************************************************)
IsPrefix(p, s) == Len(p) <= Len(s) /\ \A i \in 1..Len(p) : s[i] = p[i]

\* the statuses a call starts with
OpeningStatuses(c) ==
    IF current_task[c]
    THEN <<Status("working", FALSE, NoMessage)>>
    ELSE <<Status("submitted", FALSE, NoMessage), Status("working", FALSE, NoMessage)>>

\* inbound conversion, session resolution or the stream has been reached
PastOpening(c) ==
    \/ pc[c] \in {"convert", "get_session", "create_session", "next", "interim",
                  "add_artifact", "completed", "failed"}
    \/ escaped[c] \in {"ValueError", "StoreError", "CancelledError"}
    \/ entered[c]
    \/ stream[c] # <<>>

\* C18: what a call emits begins with submitted then working when the request
\* has no task and with working alone when it has one; submitted is never
\* emitted for a request with a task; and inbound conversion, session
\* resolution and every runner event come only after both were emitted.
C18_OpeningStatuses ==
    \A c \in Calls :
        /\ IsPrefix(log[c], OpeningStatuses(c)) \/ IsPrefix(OpeningStatuses(c), log[c])
        /\ current_task[c] =>
              \A i \in 1..Len(log[c]) :
                  ~(log[c][i].op = "status" /\ log[c][i].state = "submitted")
        /\ PastOpening(c) => IsPrefix(OpeningStatuses(c), log[c])

\* a request with a task has reached the stream: working was its first update
C18_Witness ==
    \E c \in Calls :
        /\ current_task[c]
        /\ stream[c] # <<>>
        /\ log[c][1] = Status("working", FALSE, NoMessage)

RECURSIVE TextFrom(_, _)
\* the non-empty texts of the parts from the k-th on, one after the other
TextFrom(parts, k) ==
    IF k > Len(parts) THEN ""
    ELSE (IF Truthy(parts[k].text) THEN parts[k].text ELSE "") \o TextFrom(parts, k + 1)

\* the update the specification gives for a non-final event
UpdateFor(ev) ==
    IF ev.calls THEN Status("working", FALSE, NoMessage)
    ELSE IF TextFrom(ev.parts, 1) # ""
    THEN Status("working", FALSE, AgentMessage(TextFrom(ev.parts, 1)))
    ELSE Artifact(<<APart("artifact:stream", ".", NoneV, NoneV, NoneV)>>)

\* where the update of the i-th event of the stream stands in the log
UpdateIndex(c, i) == Len(OpeningStatuses(c)) + i

UpdateAccepted(c, i) ==
    \/ i < Len(stream[c])
    \/ /\ pc[c] # "interim"
       /\ exc[c].text \notin {SinkErrorText, AttributeErrorText}

TerminalIndexes(c) == { i \in 1..Len(log[c]) : Terminal(log[c][i]) }

\* C20: a call emits at most one terminal status (so never both completed
\* and failed), nothing after it, and none before the opening statuses,
\* wherever the runner or an updater call fails.
C20_OneTerminalAndLast ==
    \A c \in Calls :
        /\ Cardinality(TerminalIndexes(c)) <= 1
        /\ \A i \in TerminalIndexes(c) :
              /\ i = Len(log[c])
              /\ i > Len(OpeningStatuses(c))
              /\ IsPrefix(OpeningStatuses(c), log[c])
              /\ pc[c] = "done"
        /\ \A i \in 1..Len(log[c]) :
              log[c][i].op = "status" =>
                  log[c][i].state \in {"submitted", "working", "completed", "failed"}

\* the completed status of a final answer was refused by the updater and the
\* call ended with its one terminal status, failed, after the artifact
C20_Witness ==
    \E c \in Calls :
        /\ pc[c] = "done"
        /\ exc[c].text = SinkErrorText
        /\ stream[c] # <<>>
        /\ stream[c][Len(stream[c])].final
        /\ log[c][Len(log[c])].state = "failed"
        /\ Len(log[c]) > 1
        /\ log[c][Len(log[c]) - 1].op = "artifact"

(***************************************************************************)
(* Properties of the in-flight tracking set under overlapping calls        *)
(***************************************************************************)
\* the call is inside the async for of _process_request
Streaming(c) == pc[c] \in {"next", "interim", "add_artifact", "completed"}

\* C21 (as claimed): with no cancel, under any interleaving of execute calls,
\* the session id of every call that is consuming its event stream is in the
\* in-flight tracking set; the exit of another call, for the same session or
\* for another one, does not take it out.
C21_StreamingSessionIsTracked ==
    \A c \in Calls : Streaming(c) => sid[c] \in active

====
